---- MODULE Spec2Model ----
(***************************************************************************)
(* Model of niniad/fetch-customs-exchange-rate.                            *)
(*                                                                         *)
(*   download_csv_to_gcs.py : get_sunday, generate_weekly_ranges,          *)
(*                            download_csv and the batch loop of main()    *)
(*   main.py                : the HTTP function fetch_customs_rate         *)
(*                                                                         *)
(* Text (hrefs, file names, CSV cells) is a tuple of one-character         *)
(* strings, so that searching, splitting, formatting and parsing are       *)
(* computed character by character as the code computes them.              *)
(* A local the code assigns once is bound once (\E x \in {e}), so that its   *)
(* expression is evaluated a single time.                                  *)
(*                                                                         *)
(* A calendar date is its day offset from START_DATE = 2023-01-01 (a       *)
(* Sunday); timedelta arithmetic is integer arithmetic on that offset and  *)
(* strftime goes through the proleptic Gregorian calendar.  START_DATE is  *)
(* a midnight datetime, so every `current` of the loop is at midnight and  *)
(* `current <= end_date` compares as the calendar days compare.            *)
(***************************************************************************)
EXTENDS Integers, Sequences, FiniteSets, TLC

\* ------------------------------------------------------------------ bounds
\* Dates handed to generate_weekly_ranges are drawn from 0..MaxDay.
MaxDay == 16
\* The batch script's clock (END_DATE = datetime.now()) is drawn from 0..MaxNow.
MaxNow == 15
\* Number of times the batch script is run against the same archive directory.
MaxBatchRuns == 2
\* Number of invocations of the HTTP function against the same warehouse table.
MaxInvocations == 1

\* --------------------------------------------------------------- variables
VARIABLES
    \* generate_weekly_ranges called as a pure function
    arg_start, arg_end, ranges, rpc,
    \* download_csv_to_gcs.main
    END_DATE, files, weekly_ranges, idx, downloaded_count, skipped_count,
    failed_count, downloaded_files, list_file, requested, batch_runs, bpc,
    \* main.py: fetch_customs_rate, its locals, the bucket and the table
    pc, invocations, soup, relative_path, csv_url, file_name, csv_content_bytes,
    df, cny_row, start_date, end_date, final_rate, result, blobs, table

rangeVars == <<arg_start, arg_end, ranges, rpc>>
batchVars == <<END_DATE, files, weekly_ranges, idx, downloaded_count, skipped_count,
               failed_count, downloaded_files, list_file, requested, batch_runs, bpc>>
localVars == <<soup, relative_path, csv_url, file_name, csv_content_bytes, df, cny_row,
               start_date, end_date, final_rate>>
pipeVars == <<pc, invocations, localVars, result, blobs, table>>
vars == <<rangeVars, batchVars, pipeVars>>

\* -------------------------------------------------------------------- text
\* Python's None where a text (a tuple of characters) is expected
None == <<"None">>

DigitChars == <<"0", "1", "2", "3", "4", "5", "6", "7", "8", "9">>

IsDigit(c) == \E k \in 1..10 : DigitChars[k] = c

DigitValue(c) == (CHOOSE k \in 1..10 : DigitChars[k] = c) - 1

\* "%02d" of a number in 0..99
TwoDigits(n) == <<DigitChars[(n \div 10) + 1], DigitChars[(n % 10) + 1]>>

\* ---------------------------------------------------------------- calendar
START_DATE == 0

StartYear == 2023

IsLeap(y) == (y % 4 = 0 /\ y % 100 # 0) \/ y % 400 = 0

DaysInYear(y) == IF IsLeap(y) THEN 366 ELSE 365

DaysInMonth(y, m) ==
    IF m = 2 THEN (IF IsLeap(y) THEN 29 ELSE 28)
    ELSE IF m \in {4, 6, 9, 11} THEN 30 ELSE 31

\* The (year, month, day) of the date `rem` days after the first of month m of
\* year y.
RECURSIVE CivilFrom(_, _, _)
CivilFrom(y, m, rem) ==
    IF rem < 0 THEN CivilFrom(y - 1, 1, rem + DaysInYear(y - 1))
    ELSE IF rem < DaysInMonth(y, m) THEN [year |-> y, month |-> m, day |-> rem + 1]
    ELSE IF m = 12 THEN CivilFrom(y + 1, 1, rem - DaysInMonth(y, m))
    ELSE CivilFrom(y, m + 1, rem - DaysInMonth(y, m))

Civil(date) == CivilFrom(StartYear, 1, date)

\* date.weekday(): Monday = 0 .. Sunday = 6.  Day 0 (2023-01-01) is a Sunday.
weekday(date) == (date + 6) % 7

\* date.strftime("%y%m%d")
strftime_yymmdd(date) ==
    LET c == Civil(date)
    IN  TwoDigits(c.year % 100) \o TwoDigits(c.month) \o TwoDigits(c.day)

\* ---------------------------------------------------- generate_weekly_ranges
get_sunday_noreset(date) == date - (weekday(date) + 1)

get_sunday(date) ==
    LET days_since_sunday == weekday(date) + 1
    IN  date - (IF days_since_sunday = 7 THEN 0 ELSE days_since_sunday)

week_end_of(current) == current + 6

next_week_short(current) == current + 6

next_week(current) == current + 7

\* The while loop: one tuple (start_str, end_str, week_start, week_end) per turn.
RECURSIVE weekly_loop(_, _)
weekly_loop(current, last_date) ==
    IF current <= last_date
    THEN <<<<strftime_yymmdd(current), strftime_yymmdd(week_end_of(current)),
             current, week_end_of(current)>>>>
         \o weekly_loop(next_week(current), last_date)
    ELSE <<>>

\* generate_weekly_ranges(start_date, end_date)
generate_weekly_ranges(first_date, last_date) ==
    weekly_loop(get_sunday(first_date), last_date)

\* ------------------------------------------------------------- batch script
CsvSuffix == <<".", "c", "s", "v">>

csv_filename(start_str, end_str) == start_str \o <<"-">> \o end_str \o CsvSuffix

\* Bodies the portal can serve with a 200; Empty is a 200 with no bytes.
Contents == {<<"A">>, <<"B">>}

Empty == <<>>

\* What requests.get does for one URL: a response with a status code, or a
\* raised requests.RequestException.
Responses ==
    [kind : {"response"}, status_code : {200}, content : Contents \cup {Empty}]
    \cup [kind : {"response"}, status_code : {404, 503}, content : {Empty}]
    \cup [kind : {"RequestException"}, status_code : {0}, content : {Empty}]

\* An exception that leaves the function that was called.
Raised == <<"Raised">>

download_csv_uncaught(start_str, end_str, resp) ==
    LET filename == csv_filename(start_str, end_str)
    IN  IF resp.kind = "RequestException" THEN <<Raised, filename>>
        ELSE IF resp.status_code = 200 THEN <<resp.content, filename>>
        ELSE <<None, filename>>

\* download_csv: (content or None, filename)
download_csv(start_str, end_str, resp) ==
    LET filename == csv_filename(start_str, end_str)
    IN  IF resp.kind = "RequestException" THEN <<None, filename>>
        ELSE IF resp.status_code = 200 THEN <<resp.content, filename>>
        ELSE IF resp.status_code = 404 THEN <<None, filename>>
        ELSE <<None, filename>>

\* Python truthiness of the content returned by download_csv
Truthy(content) == content # None /\ content # Empty /\ content # Raised

exists_never(filename) == FALSE

\* os.path.exists(filepath) for a file of OUTPUT_DIR
exists(filename) == filename \in DOMAIN files

\* Code point order of the characters file names are made of.
Ord(c) ==
    IF IsDigit(c) THEN 48 + DigitValue(c)
    ELSE IF c = "-" THEN 45
    ELSE IF c = "." THEN 46
    ELSE IF c = "c" THEN 99
    ELSE IF c = "s" THEN 115
    ELSE 118

\* s < t for Python strings
RECURSIVE StrLess(_, _)
StrLess(s, t) ==
    IF t = <<>> THEN FALSE
    ELSE IF s = <<>> THEN TRUE
    ELSE IF Ord(Head(s)) # Ord(Head(t)) THEN Ord(Head(s)) < Ord(Head(t))
    ELSE StrLess(Tail(s), Tail(t))

RECURSIVE InsertSorted(_, _)
InsertSorted(x, seq) ==
    IF seq = <<>> THEN <<x>>
    ELSE IF StrLess(x, Head(seq)) THEN <<x>> \o seq
    ELSE <<Head(seq)>> \o InsertSorted(x, Tail(seq))

\* sorted(list)
RECURSIVE sorted(_)
sorted(seq) == IF seq = <<>> THEN <<>> ELSE InsertSorted(Head(seq), sorted(Tail(seq)))

\* ------------------------------------------------------- main.py: text
StartsWith(s, p) == Len(p) <= Len(s) /\ SubSeq(s, 1, Len(p)) = p

EndsWith(s, p) == Len(p) <= Len(s) /\ SubSeq(s, Len(s) - Len(p) + 1, Len(s)) = p

\* Python's `sub in s`
Contains(s, sub) ==
    \E i \in 1..(Len(s) - Len(sub) + 1) : SubSeq(s, i, i + Len(sub) - 1) = sub

\* Positions of the character c in s
Positions(s, c) == {i \in 1..Len(s) : s[i] = c}

Max(S) == CHOOSE x \in S : \A y \in S : y <= x

Min(S) == CHOOSE x \in S : \A y \in S : x <= y

\* s.split("/")[-1]
LastSegment(s) ==
    IF Positions(s, "/") = {} THEN s
    ELSE SubSeq(s, Max(Positions(s, "/")) + 1, Len(s))

SchemeMark == <<":", "/", "/">>

\* scheme://host of an absolute URL
Origin(url) ==
    LET i == Min({k \in 1..(Len(url) - 2) : SubSeq(url, k, k + 2) = SchemeMark})
        rest == {k \in Positions(url, "/") : k > i + 2}
    IN  IF rest = {} THEN url ELSE SubSeq(url, 1, Min(rest) - 1)

\* urllib.parse.urljoin(base, ref) for a full URL, an absolute path and a path
\* relative to the directory of base (no dot segments, query or fragment).
urljoin(base, ref) ==
    IF Contains(ref, SchemeMark) THEN ref
    ELSE IF ref # <<>> /\ Head(ref) = "/" THEN Origin(base) \o ref
    ELSE SubSeq(base, 1, Max(Positions(base, "/"))) \o ref

\* main.py 24: the index page
base_url ==
    <<"h", "t", "t", "p", "s", ":", "/", "/", "w", "w", "w", ".", "c", "u", "s", "t",
    "o", "m", "s", ".", "g", "o", ".", "j", "p", "/", "t", "e", "t", "s", "u", "z", "u",
    "k", "i", "/", "k", "a", "w", "a", "s", "e", "/", "i", "n", "d", "e", "x", ".", "h",
    "t", "m">>

\* "csv/240107-240113.csv", relative to the index page
HrefRelative ==
    <<"c", "s", "v", "/", "2", "4", "0", "1", "0", "7", "-", "2", "4", "0", "1", "1",
    "3", ".", "c", "s", "v">>

\* "/tetsuzuki/kawase/csv/240114-240120.csv", an absolute path
HrefRooted ==
    <<"/", "t", "e", "t", "s", "u", "z", "u", "k", "i", "/", "k", "a", "w", "a", "s",
    "e", "/", "c", "s", "v", "/", "2", "4", "0", "1", "1", "4", "-", "2", "4", "0", "1",
    "2", "0", ".", "c", "s", "v">>

\* "https://www.customs.go.jp/csv/240121-240127.csv", a full URL
HrefAbsolute ==
    <<"h", "t", "t", "p", "s", ":", "/", "/", "w", "w", "w", ".", "c", "u", "s", "t",
    "o", "m", "s", ".", "g", "o", ".", "j", "p", "/", "c", "s", "v", "/", "2", "4", "0",
    "1", "2", "1", "-", "2", "4", "0", "1", "2", "7", ".", "c", "s", "v">>

\* "csv/240113-240107.csv": the second date precedes the first
HrefInverted ==
    <<"c", "s", "v", "/", "2", "4", "0", "1", "1", "3", "-", "2", "4", "0", "1", "0",
    "7", ".", "c", "s", "v">>

\* "csv/240107240113.csv": the two dates form one run of 12 digits
HrefJoined ==
    <<"c", "s", "v", "/", "2", "4", "0", "1", "0", "7", "2", "4", "0", "1", "1", "3",
    ".", "c", "s", "v">>

\* "csv/2401071-240113.csv": a run of 7 digits, then a run of 6
HrefSeven ==
    <<"c", "s", "v", "/", "2", "4", "0", "1", "0", "7", "1", "-", "2", "4", "0", "1",
    "1", "3", ".", "c", "s", "v">>

\* "csv/latest.csv": no digits
HrefNoDate ==
    <<"c", "s", "v", "/", "l", "a", "t", "e", "s", "t", ".", "c", "s", "v">>

\* "csv/240230-240307.csv": 30 February
HrefBadDate ==
    <<"c", "s", "v", "/", "2", "4", "0", "2", "3", "0", "-", "2", "4", "0", "3", "0",
    "7", ".", "c", "s", "v">>

\* "doc/rate.csv.html": ".csv" inside, no csv directory, another suffix
HrefArchive ==
    <<"d", "o", "c", "/", "r", "a", "t", "e", ".", "c", "s", "v", ".", "h", "t", "m",
    "l">>

\* "kawase2024.htm": no ".csv"
HrefPage ==
    <<"k", "a", "w", "a", "s", "e", "2", "0", "2", "4", ".", "h", "t", "m">>

DotCsv == <<".", "c", "s", "v">>

Csv == <<"c", "s", "v">>

\* The hrefs an anchor of the index page may carry; None is an anchor without href.
Hrefs ==
    {HrefRelative, HrefRooted, HrefAbsolute, HrefInverted, HrefJoined, HrefSeven,
     HrefNoDate, HrefBadDate, HrefArchive, HrefPage, None}

\* The index pages: the anchors' hrefs in document order.
IndexPages ==
    {<<>>} \cup {<<a>> : a \in Hrefs}
    \cup {<<a, b>> : a \in {HrefPage, None, HrefArchive, HrefRelative}, b \in Hrefs}

\* href=lambda h: h and ".csv" in h and "csv" in h
href_filter(h) == h # None /\ h # <<>> /\ Contains(h, DotCsv) /\ Contains(h, Csv)

\* soup.find("a", href=...): the first anchor the filter accepts, or None
find(anchors) ==
    LET hits == {i \in 1..Len(anchors) : href_filter(anchors[i])}
    IN  IF hits = {} THEN None ELSE anchors[Min(hits)]

\* ------------------------------------------------------ main.py: dates
\* re.findall(r"\d{6}", s): leftmost matches, each resuming where the last ended
RECURSIVE findall_6digits(_)
findall_6digits(s) ==
    IF Len(s) < 6 THEN <<>>
    ELSE IF \A k \in 1..6 : IsDigit(s[k])
         THEN <<SubSeq(s, 1, 6)>> \o findall_6digits(SubSeq(s, 7, Len(s)))
         ELSE findall_6digits(Tail(s))

\* int(ds) of a string of digits
DigitsValue(ds) ==
    LET value[i \in 0..Len(ds)] ==
            IF i = 0 THEN 0 ELSE 10 * value[i - 1] + DigitValue(ds[i])
    IN  value[Len(ds)]

\* pd.to_datetime(text, format="%Y%m%d").date() of 8 digits, as (year, month,
\* day); ValueError when the month or the day is out of range.
to_datetime_date(text) ==
    LET y == DigitsValue(SubSeq(text, 1, 4))
        m == DigitsValue(SubSeq(text, 5, 6))
        d == DigitsValue(SubSeq(text, 7, 8))
    IN  IF m \in 1..12 /\ d >= 1 /\ d <= DaysInMonth(y, m)
        THEN <<y, m, d>>
        ELSE Raised

Century == <<"2", "0">>

\* pd.Timestamp.now().date(): the days an invocation may run on
Todays == {<<2024, 1, 10>>, <<2024, 1, 24>>}

extract_dates_swapped(name, today) ==
    LET dates(date_matches) ==
            IF Len(date_matches) >= 2
            THEN <<to_datetime_date(Century \o date_matches[2]),
                   to_datetime_date(Century \o date_matches[1])>>
            ELSE <<today, today>>
    IN  CHOOSE d \in {dates(m) : m \in {findall_6digits(name)}} : TRUE

\* main.py 97-105: (start_date, end_date); a component is Raised when
\* to_datetime raises.
extract_dates(name, today) ==
    LET dates(date_matches) ==
            IF Len(date_matches) >= 2
            THEN <<to_datetime_date(Century \o date_matches[1]),
                   to_datetime_date(Century \o date_matches[2])>>
            ELSE <<today, today>>
    IN  CHOOSE d \in {dates(m) : m \in {findall_6digits(name)}} : TRUE

\* ------------------------------------------------------- main.py: the CSV
\* "19.50"
Cell_19_50 == <<"1", "9", ".", "5", "0">>

\* "1,234.5"
Cell_1234_5 == <<"1", ",", "2", "3", "4", ".", "5">>

\* "0"
Cell_0 == <<"0">>

\* "-3.5"
Cell_neg == <<"-", "3", ".", "5">>

\* "-"
Cell_dash == <<"-">>

\* "1,950.00"
Cell_1950_00 == <<"1", ",", "9", "5", "0", ".", "0", "0">>

\* "2100"
Cell_2100 == <<"2", "1", "0", "0">>

\* "0.00"
Cell_0_00 == <<"0", ".", "0", "0">>

\* "abc"
Cell_abc == <<"a", "b", "c">>

\* "20.00"
Cell_20_00 == <<"2", "0", ".", "0", "0">>

\* "145.20"
Cell_145_20 == <<"1", "4", "5", ".", "2", "0">>

\* "1"
Cell_1 == <<"1">>

\* "CNY"
CNY == <<"C", "N", "Y">>

\* "USD"
USD == <<"U", "S", "D">>

\* "ISO"
ISO == <<"I", "S", "O">>

\* "nan"
NaNText == <<"n", "a", "n">>

\* "Country"
LabelCountry == <<"C", "o", "u", "n", "t", "r", "y">>

\* " ISO "
LabelISO == <<" ", "I", "S", "O", " ">>

\* "iso"
LabelIsoLower == <<"i", "s", "o">>

\* "Name"
LabelName == <<"N", "a", "m", "e">>

\* "Unit"
LabelUnit == <<"U", "n", "i", "t">>

\* "Rate"
LabelRate == <<"R", "a", "t", "e">>

\* "Rate100"
LabelRate100 == <<"R", "a", "t", "e", "1", "0", "0">>

\* "CN"
TextCN == <<"C", "N">>

\* "US"
TextUS == <<"U", "S">>

\* "Yuan"
TextYuan == <<"Y", "u", "a", "n">>

\* "Dollar"
TextDollar == <<"D", "o", "l", "l", "a", "r">>

\* "Title"
TextTitle == <<"T", "i", "t", "l", "e">>

\* An empty field
CellEmpty == <<>>

Header == <<LabelCountry, LabelISO, LabelName, LabelUnit, LabelRate, LabelRate100>>

HeaderNoIso == <<LabelCountry, LabelIsoLower, LabelName, LabelUnit, LabelRate, LabelRate100>>

HeaderShort == <<LabelCountry, LabelISO, LabelName, LabelUnit, LabelRate>>

RowUSD == <<TextUS, USD, TextDollar, Cell_1, Cell_145_20, CellEmpty>>

RowCNY(c4, c5) == <<TextCN, CNY, TextYuan, Cell_1, c4, c5>>

\* The six lines above the header line
Preamble == <<<<TextTitle>>, <<CellEmpty>>, <<CellEmpty>>, <<CellEmpty>>, <<CellEmpty>>, <<CellEmpty>>>>

\* Values of the two rate fields of the CNY row
RateFields == {Cell_19_50, Cell_1234_5, Cell_0, Cell_neg, Cell_dash, CellEmpty}

Rate100Fields == {Cell_1950_00, Cell_2100, Cell_0_00, CellEmpty, Cell_abc}

\* A bulletin with a USD row, the CNY row and a later second CNY row
Bulletin(c4, c5) ==
    Preamble \o <<Header, RowUSD, RowCNY(c4, c5), RowCNY(Cell_20_00, CellEmpty)>>

\* The bodies the portal may serve for the bulletin: the lines of fields, and
\* the encoding the bytes are valid in.
CsvBodies ==
    {[encoding |-> "cp932", lines |-> Bulletin(c4, c5)] : c4 \in RateFields, c5 \in Rate100Fields}
    \cup {[encoding |-> "utf-8", lines |-> Bulletin(Cell_19_50, CellEmpty)],
          [encoding |-> "neither", lines |-> Bulletin(Cell_19_50, CellEmpty)],
          [encoding |-> "cp932", lines |-> Preamble \o <<Header, RowUSD>>],
          [encoding |-> "cp932", lines |-> Preamble \o <<HeaderNoIso, RowUSD, RowCNY(Cell_19_50, CellEmpty)>>],
          [encoding |-> "cp932", lines |-> Preamble \o <<HeaderShort, <<TextCN, CNY, TextYuan, Cell_1, Cell_0>>>>],
          [encoding |-> "cp932", lines |-> <<<<TextTitle>>, <<CellEmpty>>>>]}

NoBytes == [encoding |-> "", lines |-> <<>>]

\* pd.read_csv(io.BytesIO(b), skiprows=6, encoding=enc): line 7 is the header;
\* raises UnicodeDecodeError for bytes not valid in enc, EmptyDataError when
\* nothing follows the skipped lines.
read_csv(b, enc) ==
    IF b.encoding # enc THEN [raised |-> "UnicodeDecodeError", columns |-> <<>>, rows |-> <<>>]
    ELSE IF Len(b.lines) < 7 THEN [raised |-> "EmptyDataError", columns |-> <<>>, rows |-> <<>>]
    ELSE [raised |-> "", columns |-> b.lines[7], rows |-> SubSeq(b.lines, 8, Len(b.lines))]

\* main.py 74-78: cp932 first, utf-8 when that raises UnicodeDecodeError
read_csv_fallback(b) ==
    LET first == read_csv(b, "cp932")
    IN  IF first.raised = "UnicodeDecodeError" THEN read_csv(b, "utf-8") ELSE first

\* str.strip() of blanks
RECURSIVE lstrip(_)
lstrip(s) == IF s # <<>> /\ Head(s) = " " THEN lstrip(Tail(s)) ELSE s

RECURSIVE rstrip(_)
rstrip(s) == IF s # <<>> /\ s[Len(s)] = " " THEN rstrip(SubSeq(s, 1, Len(s) - 1)) ELSE s

strip(s) == rstrip(lstrip(s))

\* main.py 81
clean_columns(columns) == [k \in 1..Len(columns) |-> strip(columns[k])]

\* The position of the column labelled name
column_index(columns, name) == Min({k \in 1..Len(columns) : columns[k] = name})

\* df[df["ISO"] == "CNY"]: the rows whose ISO field is CNY, in file order
RECURSIVE select_rows(_, _, _)
select_rows(rows, col, code) ==
    IF rows = <<>> THEN <<>>
    ELSE (IF Head(rows)[col] = code THEN <<Head(rows)>> ELSE <<>>)
         \o select_rows(Tail(rows), col, code)

\* -------------------------------------------------------- main.py: the rate
\* A float is counted in ten-thousandths; four decimals are kept.
NotAFloat == [kind |-> "None", value |-> 0]

NaN == [kind |-> "nan", value |-> 0]

\* str(val).replace(",", ""): an empty field is read as NaN, whose str is "nan"
RECURSIVE remove_commas(_)
remove_commas(s) ==
    IF s = <<>> THEN <<>>
    ELSE (IF Head(s) = "," THEN <<>> ELSE <<Head(s)>>) \o remove_commas(Tail(s))

str_of(val) == IF val = CellEmpty THEN NaNText ELSE val

AllDigits(s) == \A k \in 1..Len(s) : IsDigit(s[k])

\* Four fraction digits of a digit string, as a number
Frac4(ds) == DigitsValue(SubSeq(ds \o <<"0", "0", "0", "0">>, 1, 4))

\* float(text) for "nan" and for [sign] digits [. digits]; ValueError otherwise
float_of(text) ==
    LET parse(t) ==
            LET signed == t # <<>> /\ Head(t) \in {"-", "+"}
                body == IF signed THEN Tail(t) ELSE t
                dots == Positions(body, ".")
                ip == IF dots = {} THEN body ELSE SubSeq(body, 1, Min(dots) - 1)
                fp == IF dots = {} THEN <<>> ELSE SubSeq(body, Min(dots) + 1, Len(body))
                magnitude == 10000 * DigitsValue(ip) + Frac4(fp)
            IN  IF body = NaNText THEN NaN
                ELSE IF /\ Cardinality(dots) <= 1
                        /\ AllDigits(ip) /\ AllDigits(fp)
                        /\ Len(ip) + Len(fp) >= 1
                THEN [kind |-> "float",
                      value |-> IF signed /\ Head(t) = "-" THEN 0 - magnitude ELSE magnitude]
                ELSE [kind |-> "ValueError", value |-> 0]
    IN  CHOOSE f \in {parse(t) : t \in {text}} : TRUE

\* to_float: None when float() raises
to_float(val) ==
    LET f == float_of(remove_commas(str_of(val)))
    IN  IF f.kind = "ValueError" THEN NotAFloat ELSE f

\* `v is not None and v > 0`
IsPositive(v) == v.kind = "float" /\ v.value > 0

select_rate_prefers_100(rate_1, rate_100) ==
    LET v1 == to_float(rate_1)
        v100 == to_float(rate_100)
    IN  IF IsPositive(v100) THEN [found |-> TRUE, final_rate |-> v100.value \div 100]
        ELSE IF IsPositive(v1) THEN [found |-> TRUE, final_rate |-> v1.value]
        ELSE [found |-> FALSE, final_rate |-> 0]

\* main.py 112-129
select_rate(rate_1, rate_100) ==
    LET v1 == to_float(rate_1)
        v100 == to_float(rate_100)
    IN  IF IsPositive(v1) THEN [found |-> TRUE, final_rate |-> v1.value]
        ELSE IF IsPositive(v100) THEN [found |-> TRUE, final_rate |-> v100.value \div 100]
        ELSE [found |-> FALSE, final_rate |-> 0]

\* ------------------------------------------------------------ idle states
NoFrame == [columns |-> <<>>, rows |-> <<>>]

NoResult == <<"", 0>>

\* The locals of fetch_customs_rate before it assigns them
LocalsUnset ==
    /\ soup = <<>>
    /\ relative_path = None
    /\ csv_url = <<>>
    /\ file_name = <<>>
    /\ csv_content_bytes = NoBytes
    /\ df = NoFrame
    /\ cny_row = <<>>
    /\ start_date = None
    /\ end_date = None
    /\ final_rate = 0

PipelineIdle ==
    /\ pc = "idle"
    /\ invocations = 0
    /\ LocalsUnset
    /\ result = NoResult
    /\ blobs = <<>>
    /\ table = <<>>

\* ------------------------------------------ generate_weekly_ranges, called
RangeIdle ==
    /\ arg_start = 0
    /\ arg_end = 0
    /\ ranges = <<>>
    /\ rpc = "idle"

BatchIdle ==
    /\ END_DATE = 0
    /\ files = <<>>
    /\ weekly_ranges = <<>>
    /\ idx = 1
    /\ downloaded_count = 0
    /\ skipped_count = 0
    /\ failed_count = 0
    /\ downloaded_files = <<>>
    /\ list_file = [written |-> FALSE, lines |-> <<>>]
    /\ requested = <<>>
    /\ batch_runs = 0
    /\ bpc = "idle"

InitRanges ==
    /\ arg_start \in 0..MaxDay
    /\ arg_end \in 0..MaxDay
    /\ ranges = <<>>
    /\ rpc = "called"
    /\ BatchIdle
    /\ PipelineIdle

CallGenerateWeeklyRanges ==
    /\ rpc = "called"
    /\ ranges' = generate_weekly_ranges(arg_start, arg_end)
    /\ rpc' = "returned"
    /\ UNCHANGED <<arg_start, arg_end, batchVars, pipeVars>>

NextRanges == CallGenerateWeeklyRanges

SpecRanges == InitRanges /\ [][NextRanges]_vars

\* ------------------------------------------------- download_csv_to_gcs.main
InitBatch == RangeIdle /\ BatchIdle /\ PipelineIdle

\* The script starts: END_DATE is the clock at import, the ranges are computed
\* and the counters are reset.  The archive directory is what earlier runs left.
MainStart ==
    /\ bpc \in {"idle", "done", "aborted"}
    /\ batch_runs < MaxBatchRuns
    /\ \E now \in END_DATE..MaxNow :
        /\ END_DATE' = now
        /\ weekly_ranges' = generate_weekly_ranges(START_DATE, now)
    /\ idx' = 1
    /\ downloaded_count' = 0
    /\ skipped_count' = 0
    /\ failed_count' = 0
    /\ downloaded_files' = <<>>
    /\ requested' = <<>>
    /\ batch_runs' = batch_runs + 1
    /\ bpc' = "loop"
    /\ UNCHANGED <<files, list_file, rangeVars, pipeVars>>

CurrentFilename == csv_filename(weekly_ranges[idx][1], weekly_ranges[idx][2])

\* Loop body, the file is already in the archive directory: skip.
MainSkipExisting ==
    /\ bpc = "loop"
    /\ idx <= Len(weekly_ranges)
    /\ exists(CurrentFilename)
    /\ skipped_count' = skipped_count + 1
    /\ downloaded_files' = Append(downloaded_files, CurrentFilename)
    /\ idx' = idx + 1
    /\ UNCHANGED <<END_DATE, files, weekly_ranges, downloaded_count, failed_count,
                   list_file, requested, batch_runs, bpc, rangeVars, pipeVars>>

\* Loop body, the file is not there: one GET, answered by resp.
MainDownload(resp) ==
    /\ bpc = "loop"
    /\ idx <= Len(weekly_ranges)
    /\ ~exists(CurrentFilename)
    /\ requested' = Append(requested, CurrentFilename)
    /\ LET content == download_csv(weekly_ranges[idx][1], weekly_ranges[idx][2], resp)[1]
       IN  IF content = Raised
           THEN /\ bpc' = "aborted"
                /\ UNCHANGED <<files, downloaded_count, downloaded_files, failed_count, idx>>
           ELSE IF Truthy(content)
           THEN /\ files' = (CurrentFilename :> content) @@ files
                /\ downloaded_count' = downloaded_count + 1
                /\ downloaded_files' = Append(downloaded_files, CurrentFilename)
                /\ idx' = idx + 1
                /\ UNCHANGED <<failed_count, bpc>>
           ELSE /\ failed_count' = failed_count + 1
                /\ idx' = idx + 1
                /\ UNCHANGED <<files, downloaded_count, downloaded_files, bpc>>
    /\ UNCHANGED <<END_DATE, weekly_ranges, skipped_count, list_file, batch_runs, rangeVars, pipeVars>>

MainDownloadOK ==
    \E resp \in Responses :
        /\ resp.kind = "response" /\ resp.status_code = 200 /\ resp.content # Empty
        /\ MainDownload(resp)

MainDownloadFailed ==
    \E resp \in Responses :
        /\ ~(resp.kind = "response" /\ resp.status_code = 200 /\ resp.content # Empty)
        /\ MainDownload(resp)

\* After the loop: downloaded_files.txt is rewritten, sorted, one basename per line.
MainFinish ==
    /\ bpc = "loop"
    /\ idx > Len(weekly_ranges)
    /\ list_file' = [written |-> TRUE, lines |-> sorted(downloaded_files)]
    /\ bpc' = "done"
    /\ UNCHANGED <<END_DATE, files, weekly_ranges, idx, downloaded_count, skipped_count,
                   failed_count, downloaded_files, requested, batch_runs, rangeVars, pipeVars>>

NextBatch ==
    \/ MainStart
    \/ MainSkipExisting
    \/ MainDownloadOK
    \/ MainDownloadFailed
    \/ MainFinish

SpecBatch == InitBatch /\ [][NextBatch]_vars

\* -------------------------------------------- main.py: fetch_customs_rate
InitPipeline == RangeIdle /\ BatchIdle /\ PipelineIdle

Return_always_200(message, status) ==
    /\ pc' = "returned"
    /\ result' = <<message, 200>>

\* `return message, status`, also from the `except Exception` handler
Return(message, status) ==
    /\ pc' = "returned"
    /\ result' = <<message, status>>

\* An HTTP request arrives: a new call, its locals unset.
Invoke ==
    /\ pc \in {"idle", "returned"}
    /\ invocations < MaxInvocations
    /\ invocations' = invocations + 1
    /\ pc' = "get_index"
    /\ soup' = <<>>
    /\ relative_path' = None
    /\ csv_url' = <<>>
    /\ file_name' = <<>>
    /\ csv_content_bytes' = NoBytes
    /\ df' = NoFrame
    /\ cny_row' = <<>>
    /\ start_date' = None
    /\ end_date' = None
    /\ final_rate' = 0
    /\ result' = NoResult
    /\ UNCHANGED <<blobs, table, rangeVars, batchVars>>

\* 33-37: the index page is fetched and parsed
GetIndex ==
    /\ pc = "get_index"
    /\ soup' \in IndexPages
    /\ pc' = "find_link"
    /\ UNCHANGED <<invocations, relative_path, csv_url, file_name, csv_content_bytes, df,
                   cny_row, start_date, end_date, final_rate, result, blobs, table,
                   rangeVars, batchVars>>

\* 33-34: requests.get or raise_for_status raises
GetIndexRaises ==
    /\ pc = "get_index"
    /\ Return("Error", 500)
    /\ UNCHANGED <<invocations, localVars, blobs, table, rangeVars, batchVars>>

\* 41-51: the link is looked up; soup is not read again
FindLink ==
    /\ pc = "find_link"
    /\ \E csv_link_tag \in {find(soup)} :
        IF csv_link_tag = None
        THEN /\ Return("CSV link not found", 404)
             /\ UNCHANGED <<relative_path, csv_url, file_name>>
        ELSE \E url \in {urljoin(base_url, csv_link_tag)} :
                /\ relative_path' = csv_link_tag
                /\ csv_url' = url
                /\ file_name' = LastSegment(url)
                /\ pc' = "get_csv"
                /\ UNCHANGED result
    /\ soup' = <<>>
    /\ UNCHANGED <<invocations, csv_content_bytes, df, cny_row, start_date, end_date,
                   final_rate, blobs, table, rangeVars, batchVars>>

\* 55-60: the bulletin is fetched
GetCsv ==
    /\ pc = "get_csv"
    /\ csv_content_bytes' \in CsvBodies
    /\ pc' = "upload"
    /\ UNCHANGED <<invocations, soup, relative_path, csv_url, file_name, df, cny_row,
                   start_date, end_date, final_rate, result, blobs, table,
                   rangeVars, batchVars>>

GetCsvRaises ==
    /\ pc = "get_csv"
    /\ Return("Error", 500)
    /\ UNCHANGED <<invocations, localVars, blobs, table, rangeVars, batchVars>>

\* 63-68: the bytes are stored under raw_customs_csv/<file_name>
Upload ==
    /\ pc = "upload"
    /\ blobs' = (file_name :> csv_content_bytes) @@ blobs
    /\ pc' = "read_csv"
    /\ UNCHANGED <<invocations, localVars, result, table, rangeVars, batchVars>>

UploadRaises ==
    /\ pc = "upload"
    /\ Return("Error", 500)
    /\ UNCHANGED <<invocations, localVars, blobs, table, rangeVars, batchVars>>

\* 74-81: the frame is read and its column labels are stripped
ReadCsv ==
    /\ pc = "read_csv"
    /\ \E read \in {read_csv_fallback(csv_content_bytes)} :
        IF read.raised # ""
        THEN /\ Return("Error", 500)
             /\ UNCHANGED df
        ELSE /\ df' = [columns |-> clean_columns(read.columns), rows |-> read.rows]
             /\ pc' = "select_row"
             /\ UNCHANGED result
    /\ UNCHANGED <<invocations, soup, relative_path, csv_url, file_name, csv_content_bytes,
                   cny_row, start_date, end_date, final_rate, blobs, table,
                   rangeVars, batchVars>>

\* 85-93: the ISO column must exist and hold a CNY row
SelectRow ==
    /\ pc = "select_row"
    /\ IF \A k \in 1..Len(df.columns) : df.columns[k] # ISO
       THEN /\ Return("ISO column not found in CSV", 500)
            /\ UNCHANGED cny_row
       ELSE \E selected \in {select_rows(df.rows, column_index(df.columns, ISO), CNY)} :
                IF selected = <<>>
                THEN /\ Return("CNY data not found", 404)
                     /\ UNCHANGED cny_row
                ELSE /\ cny_row' = selected
                     /\ pc' = "dates"
                     /\ UNCHANGED result
    /\ UNCHANGED <<invocations, soup, relative_path, csv_url, file_name, csv_content_bytes,
                   df, start_date, end_date, final_rate, blobs, table,
                   rangeVars, batchVars>>

\* 97-105: the dates of the record
ExtractDates ==
    /\ pc = "dates"
    /\ \E today \in Todays :
        \E dates \in {extract_dates(file_name, today)} :
            IF dates[1] = Raised \/ dates[2] = Raised
            THEN /\ Return("Error", 500)
                 /\ UNCHANGED <<start_date, end_date>>
            ELSE /\ start_date' = dates[1]
                 /\ end_date' = dates[2]
                 /\ pc' = "rate"
                 /\ UNCHANGED result
    /\ UNCHANGED <<invocations, soup, relative_path, csv_url, file_name, csv_content_bytes,
                   df, cny_row, final_rate, blobs, table, rangeVars, batchVars>>

\* 109-129: the rate; iloc raises IndexError on a row without the two fields
SelectRate ==
    /\ pc = "rate"
    /\ IF Len(cny_row[1]) < 6
       THEN /\ Return("Error", 500)
            /\ UNCHANGED final_rate
       ELSE \E rate_1 \in {cny_row[1][5]}, rate_100 \in {cny_row[1][6]} :
                \E chosen \in {select_rate(rate_1, rate_100)} :
                    IF chosen.found
                    THEN /\ final_rate' = chosen.final_rate
                         /\ pc' = "load"
                         /\ UNCHANGED result
                    ELSE /\ Return("Valid rate not found", 500)
                         /\ UNCHANGED final_rate
    /\ UNCHANGED <<invocations, soup, relative_path, csv_url, file_name, csv_content_bytes,
                   df, cny_row, start_date, end_date, blobs, table, rangeVars, batchVars>>

\* 132-139: the row to append
load_df ==
    [start_date |-> start_date, end_date |-> end_date, iso_code |-> CNY,
     currency_name |-> "renminbi", rate |-> final_rate, source_file |-> file_name]

\* 146-152: the load job appends the row (WRITE_APPEND)
Load ==
    /\ pc = "load"
    /\ table' = Append(table, load_df)
    /\ Return("Success", 200)
    /\ UNCHANGED <<invocations, localVars, blobs, rangeVars, batchVars>>

LoadRaises ==
    /\ pc = "load"
    /\ Return("Error", 500)
    /\ UNCHANGED <<invocations, localVars, blobs, table, rangeVars, batchVars>>

Step ==
    \/ GetIndex
    \/ GetIndexRaises
    \/ FindLink
    \/ GetCsv
    \/ GetCsvRaises
    \/ Upload
    \/ UploadRaises
    \/ ReadCsv
    \/ SelectRow
    \/ ExtractDates
    \/ SelectRate
    \/ Load
    \/ LoadRaises

Next == Invoke \/ Step

Spec == InitPipeline /\ [][Next]_vars

\* Every call the function makes returns or raises, so a started invocation
\* keeps taking steps.
FairSpec == Spec /\ WF_vars(Step)

\* =================================================================== claims
\* ------------------------------------------------ generate_weekly_ranges
\* Day 0 is Sunday 2023-01-01, so the Sundays are the multiples of 7.
IsSunday(date) == date % 7 = 0

LastRange == ranges[Len(ranges)]

\* C1: for every start_date > end_date, generate_weekly_ranges returns an
\* empty sequence, whatever the weekdays of the two dates.
C1_InvertedRangeIsEmpty ==
    (rpc = "returned" /\ arg_start > arg_end) => ranges = <<>>

\* C2: generate_weekly_ranges(D, D) returns exactly one window, with
\* start <= D <= end and a Sunday as start.
C2_SingleDateOneWindow ==
    (rpc = "returned" /\ arg_start = arg_end) =>
        /\ Len(ranges) = 1
        /\ ranges[1][3] <= arg_start
        /\ arg_start <= ranges[1][4]
        /\ IsSunday(ranges[1][3])

\* generate_weekly_ranges(D, D) has returned for Wednesday 2023-01-11
C2_Witness ==
    /\ rpc = "returned"
    /\ arg_start = arg_end
    /\ arg_start = 10
    /\ Len(ranges) = 1
    /\ ranges[1][3] = 7

\* C3: for start_date <= end_date the windows are in strictly increasing order
\* of start, each starts on a Sunday and ends 6 days later, each start is 7 days
\* after the previous one, the first window contains start_date and the last
\* contains end_date without being cut at it.
C3_ContiguousSundayWeeks ==
    (rpc = "returned" /\ arg_start <= arg_end) =>
        /\ Len(ranges) >= 1
        /\ \A i \in 1..Len(ranges) :
            /\ IsSunday(ranges[i][3])
            /\ ranges[i][4] = ranges[i][3] + 6
        /\ \A i \in 1..(Len(ranges) - 1) :
            /\ ranges[i][3] < ranges[i + 1][3]
            /\ ranges[i + 1][3] = ranges[i][3] + 7
        /\ ranges[1][3] <= arg_start /\ arg_start <= ranges[1][4]
        /\ LastRange[3] <= arg_end /\ arg_end <= LastRange[4]

\* Three windows, from a Tuesday to a Monday: the last window runs past end_date
C3_Witness ==
    /\ rpc = "returned"
    /\ arg_start = 2
    /\ arg_end = 15
    /\ Len(ranges) = 3
    /\ LastRange[4] > arg_end

\* ---------------------------------------------------------- the batch run
\* C7: a window whose file is already in the archive directory is not
\* fetched and its file is left as it is, so a later run fetches only the
\* windows the earlier runs did not archive.
C7_ExistingFilesNotFetched ==
    [][/\ \A f \in DOMAIN files : f \in DOMAIN files' /\ files'[f] = files[f]
       /\ Len(requested') > Len(requested) =>
              requested'[Len(requested')] \notin DOMAIN files
       /\ (bpc = "loop" /\ idx <= Len(weekly_ranges) /\ idx' = idx + 1
           /\ CurrentFilename \in DOMAIN files) => requested' = requested]_vars

\* A second run has skipped an archived window and fetched another one
C7_Witness ==
    /\ batch_runs = 2
    /\ bpc = "done"
    /\ skipped_count >= 1
    /\ Len(requested) >= 1

CounterSum == downloaded_count + skipped_count + failed_count

\* C8: a failed fetch never aborts the run: the windows are visited once
\* each in ascending order, each visit increments exactly one counter, and at
\* the end downloaded + skipped + failed is the number of windows.
C8_FailuresCountedNotFatal ==
    /\ [](bpc # "aborted")
    /\ [](bpc \in {"loop", "done"} => CounterSum = idx - 1)
    /\ [](bpc = "done" => CounterSum = Len(weekly_ranges))
    /\ [][(bpc = "loop" /\ idx' # idx) =>
            /\ idx' = idx + 1
            /\ CounterSum' = CounterSum + 1
            /\ downloaded_count' >= downloaded_count
            /\ skipped_count' >= skipped_count
            /\ failed_count' >= failed_count]_vars

\* A run has ended with a skipped, a downloaded and a failed window
C8_Witness ==
    /\ bpc = "done"
    /\ failed_count >= 1
    /\ downloaded_count >= 1
    /\ skipped_count >= 1

\* ----------------------------------------------------- fetch_customs_rate
\* What each rate field of a CNY row is worth, in ten-thousandths; 0 for a field
\* that is empty, not a number, zero or negative.
FieldWorth(cell) ==
    CASE cell = Cell_19_50 -> 195000
      [] cell = Cell_1234_5 -> 12345000
      [] cell = Cell_20_00 -> 200000
      [] cell = Cell_1950_00 -> 19500000
      [] cell = Cell_2100 -> 21000000
      [] OTHER -> 0

\* The first row of the frame whose second field (the ISO column) is CNY
FirstCnyRow == df.rows[Min({k \in 1..Len(df.rows) : df.rows[k][2] = CNY})]

\* The dates were extracted (ExtractDates did not return)
DatesExtracted == start_date # None /\ pc \in {"rate", "load", "returned"}

\* The rate step has run on a row that has both rate fields
RateStepDone == start_date # None /\ pc \in {"load", "returned"} /\ Len(FirstCnyRow) >= 6

\* C4: an unusable candidate (not a number, or not positive) counts as absent;
\* a usable per-unit candidate (field 4 of the first CNY row) is the rate;
\* otherwise a usable per-100 candidate (field 5) divided by 100 is the rate;
\* otherwise the run ends with 'Valid rate not found' and no rate.
C4_RateSelection ==
    RateStepDone =>
        LET per_unit == FieldWorth(FirstCnyRow[5])
            per_100 == FieldWorth(FirstCnyRow[6])
        IN  IF per_unit > 0
            THEN final_rate = per_unit /\ result[1] # "Valid rate not found"
            ELSE IF per_100 > 0
            THEN 100 * final_rate = per_100 /\ result[1] # "Valid rate not found"
            ELSE /\ result = <<"Valid rate not found", 500>>
                 /\ final_rate = 0

\* The per-unit field is unusable and the rate is the per-100 field over 100
C4_Witness ==
    /\ pc = "load"
    /\ FirstCnyRow[5] = Cell_dash
    /\ FirstCnyRow[6] = Cell_1950_00
    /\ final_rate = 195000

\* The maximal runs of digits of s, in order
RECURSIVE DigitRuns(_, _)
DigitRuns(s, run) ==
    IF s = <<>> THEN (IF run = <<>> THEN <<>> ELSE <<run>>)
    ELSE IF IsDigit(Head(s)) THEN DigitRuns(Tail(s), Append(run, Head(s)))
    ELSE (IF run = <<>> THEN <<>> ELSE <<run>>) \o DigitRuns(Tail(s), <<>>)

\* The runs of exactly 6 consecutive digits of s, in order
RunsOfExactlySix(s) == SelectSeq(DigitRuns(s, <<>>), LAMBDA r : Len(r) = 6)

\* '20' + YYMMDD read as a date
DateOfYYMMDD(t) ==
    <<2000 + 10 * DigitValue(t[1]) + DigitValue(t[2]),
      10 * DigitValue(t[3]) + DigitValue(t[4]),
      10 * DigitValue(t[5]) + DigitValue(t[6])>>

\* C5 as stated: only runs of exactly 6 digits count; with two of them the
\* dates are '20' + first and '20' + second, with fewer (a longer run is none)
\* both dates are the current date.
C5_RunsOfExactlySix ==
    DatesExtracted =>
        LET runs == RunsOfExactlySix(file_name)
        IN  IF Len(runs) >= 2
            THEN start_date = DateOfYYMMDD(runs[1]) /\ end_date = DateOfYYMMDD(runs[2])
            ELSE start_date = end_date /\ start_date \in Todays

\* Six digits start at position i of s
SixDigitsAt(s, i) == i + 5 <= Len(s) /\ \A k \in i..(i + 5) : IsDigit(s[k])

\* Where the first group of six digits starts, and where the next one that does
\* not overlap it starts; 0 when there is none
FirstGroup(s) ==
    LET at == {i \in 1..Len(s) : SixDigitsAt(s, i)}
    IN  IF at = {} THEN 0 ELSE Min(at)

SecondGroup(s) ==
    LET at == {i \in 1..Len(s) : FirstGroup(s) > 0 /\ i >= FirstGroup(s) + 6 /\ SixDigitsAt(s, i)}
    IN  IF at = {} THEN 0 ELSE Min(at)

\* C5, amended: the groups are six consecutive digits taken left to right
\* without overlap, so a longer run of digits holds one group per six digits; with
\* two groups the dates are '20' + first and '20' + second, with fewer both
\* dates are the current date.
C5_GroupsOfSix ==
    DatesExtracted =>
        LET p == FirstGroup(file_name)
            q == SecondGroup(file_name)
        IN  IF q > 0
            THEN /\ start_date = DateOfYYMMDD(SubSeq(file_name, p, p + 5))
                 /\ end_date = DateOfYYMMDD(SubSeq(file_name, q, q + 5))
            ELSE start_date = end_date /\ start_date \in Todays

\* The two dates were read out of one run of 12 digits
C5_Witness ==
    /\ DatesExtracted
    /\ file_name = LastSegment(HrefJoined)
    /\ start_date = <<2024, 1, 7>>
    /\ end_date = <<2024, 1, 13>>

\* a <= b for two dates (year, month, day)
DateLeq(a, b) ==
    \/ a[1] < b[1]
    \/ a[1] = b[1] /\ a[2] < b[2]
    \/ a[1] = b[1] /\ a[2] = b[2] /\ a[3] <= b[3]

\* C6: every record appended to the table has rate > 0 and
\* start_date <= end_date.
C6_RecordInvariant ==
    \A i \in 1..Len(table) :
        /\ table[i].rate > 0
        /\ DateLeq(table[i].start_date, table[i].end_date)

\* The path segments of an href
RECURSIVE Segments(_, _)
Segments(s, seg) ==
    IF s = <<>> THEN <<seg>>
    ELSE IF Head(s) = "/" THEN <<seg>> \o Segments(Tail(s), <<>>)
    ELSE Segments(Tail(s), Append(seg, Head(s)))

\* An href with a 'csv' path segment and the '.csv' suffix
IsCsvLink(h) ==
    /\ h # None
    /\ EndsWith(h, DotCsv)
    /\ \E k \in 1..Len(Segments(h, <<>>)) : Segments(h, <<>>)[k] = Csv

\* C9: the link chosen is the first anchor whose href has a 'csv' path
\* segment and ends with '.csv', resolved against the index page URL; with no
\* such anchor the run ends 404 before any bulletin fetch, upload or append.
C9_FirstCsvLinkOrNotFound ==
    [][pc = "find_link" =>
        LET hits == {i \in 1..Len(soup) : IsCsvLink(soup[i])}
        IN  IF hits = {}
            THEN /\ pc' = "returned"
                 /\ result' = <<"CSV link not found", 404>>
                 /\ csv_content_bytes' = NoBytes
                 /\ blobs' = blobs
                 /\ table' = table
            ELSE /\ pc' = "get_csv"
                 /\ relative_path' = soup[Min(hits)]
                 /\ EndsWith(csv_url', LastSegment(soup[Min(hits)]))
                 /\ StartsWith(csv_url', Origin(base_url))]_vars

====
